---- MODULE Spec2Model ----
(***************************************************************************)
(* Model of apiserver/services/projects.py: the projects.get_by_id,        *)
(* projects.create, projects.update and projects.delete endpoints over a   *)
(* document store holding Project, Task and Model documents.               *)
(***************************************************************************)
EXTENDS Naturals, FiniteSets, Sequences, TLC

VARIABLES
    projects,   \* Project collection: id -> document
    tasks,      \* Task collection: id -> [project, system_tags]
    models,     \* Model collection: id -> [project, system_tags]
    now,        \* datetime.utcnow(), advanced by one at every request
    nextId,     \* next fresh project id handed out by ProjectBLL.create
    pc,         \* position of the request in flight ("idle": none)
    call,       \* the last request: endpoint, identity.company, call.data
    result,     \* call.result of the last request
    project,    \* delete: the id of the document loaded by get_for_writing
    loop,       \* delete: index of the for loop over (Task, Model)
    res,        \* delete: the class whose queryset the name `res` is bound to
    start,      \* history: the store when the last request began
    raced       \* history: documents attached to call.project while delete ran

vars == <<projects, tasks, models, now, nextId, pc, call, result, project,
          loop, res, start, raced>>

----------------------------------------------------------------------------
\* Bounds of the model
MaxTime == 2
MaxProjects == 4
NumTasks == 1
NumModels == 1
MaxAttach == 1

Companies == {"c1", "c2"}
NoCompany == ""
None == 0
ProjectIds == 1..MaxProjects
TaskIds == 1..NumTasks
ModelIds == 1..NumModels

\* create_fields: the updatable fields of a project
create_fields == {"name", "description", "tags", "system_tags",
                  "default_output_destination"}

\* the subsets of the updatable fields a request may supply
FieldSubsets == {{}, {"name"}, create_fields}

\* EntityVisibility.archived.value
archived == "archived"

Store == [projects |-> projects, tasks |-> tasks, models |-> models]

NoCall == [op |-> "none", company |-> NoCompany, project |-> None,
           force |-> FALSE, fields |-> {}]
NoResult == [status |-> "none", data |-> <<>>]

Error(name) == [status |-> name, data |-> <<>>]
Ok(data) == [status |-> "ok", data |-> data]

----------------------------------------------------------------------------
\* Collaborators of the module (database layer, ProjectBLL)

\* get_company_or_none_constraint(company): the document's company is the
\* caller's, or the document has none (public)
get_company_or_none_constraint(doc, company) ==
    doc.company \in {company, NoCompany}

\* Project.get_for_writing(company, id): the project with this id owned by the
\* company (public documents are not writable), or None
get_for_writing(company, id) ==
    IF id \in DOMAIN projects /\ projects[id].company = company
    THEN id ELSE None

\* cls.objects: the collection of a document class
Collection(cls) == IF cls = "Task" THEN tasks ELSE models

----------------------------------------------------------------------------
\* projects.get_by_id

\* Q(id=project_id) & get_company_or_none_constraint(company)
GetByIdQueryNoTenant(project_id, company) ==
    {p \in DOMAIN projects : p = project_id}

GetByIdQuery(project_id, company) ==
    {p \in DOMAIN projects :
        p = project_id /\ get_company_or_none_constraint(projects[p], company)}

get_by_id(company, project_id) ==
    /\ pc = "idle"
    /\ now < MaxTime
    /\ now' = now + 1
    /\ call' = [NoCall EXCEPT !.op = "get_by_id", !.company = company,
                              !.project = project_id]
    /\ start' = Store
    /\ raced' = {}
    /\ LET found == GetByIdQuery(project_id, company) IN
       result' = IF found = {}
                 THEN Error("InvalidProjectId")
                 ELSE LET p == CHOOSE p \in found : TRUE IN
                      Ok([project |-> [id |-> p] @@ projects[p]])
    /\ UNCHANGED <<projects, tasks, models, nextId, pc, project, loop, res>>

----------------------------------------------------------------------------
\* projects.create

create(company) ==
    /\ pc = "idle"
    /\ now < MaxTime
    /\ nextId <= MaxProjects
    /\ now' = now + 1
    /\ call' = [NoCall EXCEPT !.op = "create", !.company = company,
                              !.fields = {"name", "description"}]
    /\ start' = Store
    /\ raced' = {}
    /\ projects' = (nextId :> [company |-> company, last_update |-> now',
                               fields |-> [f \in create_fields |-> "v0"]])
                   @@ projects
    /\ nextId' = nextId + 1
    /\ result' = Ok([id |-> nextId])
    /\ UNCHANGED <<tasks, models, pc, project, loop, res>>

----------------------------------------------------------------------------
\* projects.update

\* fields = parse_from_call(...); fields["last_update"] = datetime.utcnow()
UpdateFieldsStampIfAny(doc, fields, time) ==
    [doc EXCEPT !.fields = [f \in create_fields |->
                               IF f \in fields THEN "v1" ELSE @[f]],
                !.last_update = IF fields = {} THEN @ ELSE time]

UpdateFields(doc, fields, time) ==
    [doc EXCEPT !.fields = [f \in create_fields |->
                               IF f \in fields THEN "v1" ELSE @[f]],
                !.last_update = time]

updateAnyCompany(company, project_id, fields) ==
    /\ pc = "idle"
    /\ now < MaxTime
    /\ now' = now + 1
    /\ call' = [NoCall EXCEPT !.op = "update", !.company = company,
                              !.project = project_id, !.fields = fields]
    /\ start' = Store
    /\ raced' = {}
    /\ IF project_id \notin DOMAIN projects
       THEN /\ result' = Error("InvalidProjectId")
            /\ UNCHANGED projects
       ELSE /\ projects' = [projects EXCEPT ![project_id] =
                               UpdateFields(@, fields, now')]
            /\ result' = Ok([updated |-> 1,
                             fields |-> fields \cup {"last_update"}])
    /\ UNCHANGED <<tasks, models, nextId, pc, project, loop, res>>

update(company, project_id, fields) ==
    /\ pc = "idle"
    /\ now < MaxTime
    /\ now' = now + 1
    /\ call' = [NoCall EXCEPT !.op = "update", !.company = company,
                              !.project = project_id, !.fields = fields]
    /\ start' = Store
    /\ raced' = {}
    /\ LET found == get_for_writing(company, project_id) IN
       IF found = None
       THEN /\ result' = Error("InvalidProjectId")
            /\ UNCHANGED projects
       ELSE /\ projects' = [projects EXCEPT ![found] =
                               UpdateFields(@, fields, now')]
            /\ result' = Ok([updated |-> 1,
                             fields |-> fields \cup {"last_update"}])
    /\ UNCHANGED <<tasks, models, nextId, pc, project, loop, res>>

----------------------------------------------------------------------------
\* projects.delete

\* the (class, error) pairs the for loop runs over, in order
DeleteClassesModelFirst ==
    << [cls |-> "Model", error |-> "ProjectHasModels"],
       [cls |-> "Task", error |-> "ProjectHasTasks"] >>

DeleteClassesModelOnly ==
    << [cls |-> "Model", error |-> "ProjectHasModels"] >>

DeleteClasses ==
    << [cls |-> "Task", error |-> "ProjectHasTasks"],
       [cls |-> "Model", error |-> "ProjectHasModels"] >>

\* cls.objects(project=project_id, system_tags__nin=[archived]), evaluated
\* against the collection as it is when the queryset is used
QueryWithArchived(cls, project_id) ==
    {d \in DOMAIN Collection(cls) : Collection(cls)[d].project = project_id}

Query(cls, project_id) ==
    {d \in DOMAIN Collection(cls) :
        /\ Collection(cls)[d].project = project_id
        /\ archived \notin Collection(cls)[d].system_tags}

\* if res and not force
BlockedNever(matched, force) == FALSE

Blocked(matched, force) == matched # {} /\ ~force

\* project_id, force and get_for_writing
DeleteStart(company, project_id, force) ==
    /\ pc = "idle"
    /\ now < MaxTime
    /\ now' = now + 1
    /\ call' = [NoCall EXCEPT !.op = "delete", !.company = company,
                              !.project = project_id, !.force = force]
    /\ start' = Store
    /\ raced' = {}
    /\ project' = get_for_writing(company, project_id)
    /\ IF project' = None
       THEN /\ result' = Error("InvalidProjectId")
            /\ pc' = "idle"
            /\ UNCHANGED loop
       ELSE /\ result' = NoResult
            /\ pc' = "loop"
            /\ loop' = 1
    /\ UNCHANGED <<projects, tasks, models, nextId, res>>

\* one iteration of the for loop: bind res, raise when blocked
DeleteLoop ==
    /\ pc = "loop"
    /\ res' = DeleteClasses[loop].cls
    /\ IF Blocked(Query(res', call.project), call.force)
       THEN /\ result' = Error(DeleteClasses[loop].error)
            /\ pc' = "idle"
            /\ UNCHANGED loop
       ELSE /\ IF loop < Len(DeleteClasses)
               THEN pc' = "loop" /\ loop' = loop + 1
               ELSE pc' = "update" /\ UNCHANGED loop
            /\ UNCHANGED result
    /\ UNCHANGED <<projects, tasks, models, now, nextId, call, project,
                   start, raced>>

\* updated_count = res.update(project=None)
DeleteUpdate ==
    /\ pc = "update"
    /\ LET matched == Query(res, call.project) IN
       /\ result' = [result EXCEPT !.data = [updated_count |->
                                                Cardinality(matched)]]
       /\ IF res = "Task"
          THEN /\ tasks' = [t \in DOMAIN tasks |->
                              IF t \in matched
                              THEN [tasks[t] EXCEPT !.project = None]
                              ELSE tasks[t]]
               /\ UNCHANGED models
          ELSE /\ models' = [m \in DOMAIN models |->
                               IF m \in matched
                               THEN [models[m] EXCEPT !.project = None]
                               ELSE models[m]]
               /\ UNCHANGED tasks
    /\ pc' = "delete"
    /\ UNCHANGED <<projects, now, nextId, call, project, loop, res, start,
                   raced>>

\* project.delete() and the response
DeleteProject ==
    /\ pc = "delete"
    /\ projects' = [p \in DOMAIN projects \ {project} |-> projects[p]]
    /\ result' = Ok([deleted |-> 1,
                     disassociated_tasks |-> result.data.updated_count])
    /\ pc' = "idle"
    /\ UNCHANGED <<tasks, models, now, nextId, call, project, loop, res,
                   start, raced>>

----------------------------------------------------------------------------
\* A request of another service (tasks / models) that runs while a delete is
\* in flight and attaches a non-archived document to the project being deleted.
Attach(cls, d) ==
    /\ pc # "idle"
    /\ Cardinality(raced) < MaxAttach
    /\ call.project \in DOMAIN projects
    /\ Collection(cls)[d].project # call.project
    /\ IF cls = "Task"
       THEN /\ tasks' = [tasks EXCEPT ![d] =
                            [project |-> call.project, system_tags |-> {}]]
            /\ UNCHANGED models
       ELSE /\ models' = [models EXCEPT ![d] =
                            [project |-> call.project, system_tags |-> {}]]
            /\ UNCHANGED tasks
    /\ raced' = raced \cup {<<cls, d>>}
    /\ UNCHANGED <<projects, now, nextId, pc, call, result, project, loop,
                   res, start>>

----------------------------------------------------------------------------
\* The store after construction: a project of each company and a public one;
\* every task and model is unattached or belongs to project 1, archived or not.
InitDocs == {[project |-> None, system_tags |-> {}],
             [project |-> 1, system_tags |-> {}],
             [project |-> 1, system_tags |-> {archived}]}

NewProject(company) ==
    [company |-> company, last_update |-> 0,
     fields |-> [f \in create_fields |-> "v0"]]

Init ==
    /\ projects = (1 :> NewProject("c1")) @@ (2 :> NewProject("c2"))
                  @@ (3 :> NewProject(NoCompany))
    /\ tasks \in [TaskIds -> InitDocs]
    /\ models \in [ModelIds -> InitDocs]
    /\ now = 0
    /\ nextId = 4
    /\ pc = "idle"
    /\ call = NoCall
    /\ result = NoResult
    /\ project = None
    /\ loop = 1
    /\ res = "Task"
    /\ start = [projects |-> projects, tasks |-> tasks, models |-> models]
    /\ raced = {}

Next ==
    \/ \E c \in Companies, p \in ProjectIds : get_by_id(c, p)
    \/ \E c \in Companies : create(c)
    \/ \E c \in Companies, p \in ProjectIds, f \in FieldSubsets :
          update(c, p, f)
    \/ \E c \in Companies, p \in ProjectIds, f \in BOOLEAN :
          DeleteStart(c, p, f)
    \/ DeleteLoop
    \/ DeleteUpdate
    \/ DeleteProject

\* requests run one at a time, each to completion
Spec == Init /\ [][Next]_vars

AttachAny ==
    \E cls \in {"Task", "Model"} :
       \E d \in DOMAIN Collection(cls) : Attach(cls, d)

NextRace == Next \/ AttachAny

\* the store gives no isolation: other requests interleave with delete's steps
SpecRace == Init /\ [][NextRace]_vars

----------------------------------------------------------------------------
\* Vocabulary of the properties: the last request and the store it began on

Done(op) == pc = "idle" /\ call.op = op

\* the request's project id named a project its company may write
WritableAtStart ==
    /\ call.project \in DOMAIN start.projects
    /\ start.projects[call.project].company = call.company

\* the request's project id named a project visible to its company
VisibleAtStart ==
    /\ call.project \in DOMAIN start.projects
    /\ start.projects[call.project].company \in {call.company, NoCompany}

\* non-archived tasks / models that referenced the project when the request began
StartTasks ==
    {t \in DOMAIN start.tasks :
        /\ start.tasks[t].project = call.project
        /\ archived \notin start.tasks[t].system_tags}

StartModels ==
    {m \in DOMAIN start.models :
        /\ start.models[m].project = call.project
        /\ archived \notin start.models[m].system_tags}

\* non-archived tasks / models that reference the request's project now
ActiveTasks ==
    {t \in DOMAIN tasks :
        tasks[t].project = call.project /\ archived \notin tasks[t].system_tags}

ActiveModels ==
    {m \in DOMAIN models :
        models[m].project = call.project
        /\ archived \notin models[m].system_tags}

----------------------------------------------------------------------------
\* C1: an unforced delete of a writable project that has a non-archived task
\* or model fails with ProjectHasTasks or ProjectHasModels and leaves the
\* store as it was when the request began.
C1_UnforcedDeleteBlocked ==
    (Done("delete") /\ ~call.force /\ WritableAtStart
        /\ (StartTasks # {} \/ StartModels # {}))
    => /\ result.status \in {"ProjectHasTasks", "ProjectHasModels"}
       /\ Store = start

C1_Witness ==
    /\ Done("delete") /\ ~call.force /\ WritableAtStart
    /\ StartTasks = {} /\ StartModels # {}
    /\ result.status = "ProjectHasModels"
    /\ Store = start

\* C2: once a forced delete has removed the project document, every
\* non-archived task and model that referenced the project when the request
\* began has its project reference cleared.
C2_ForcedDeleteDisassociates ==
    (call.op = "delete" /\ call.force /\ WritableAtStart
        /\ call.project \notin DOMAIN projects)
    => /\ \A t \in StartTasks : tasks[t].project = None
       /\ \A m \in StartModels : models[m].project = None

\* C3: a step is a successful update of project p exactly when it stamps p's
\* last_update with the time of the request, whatever fields are supplied;
\* no other step changes last_update, so it never decreases and equals the
\* time of the most recent successful update.
UpdateStep(p) ==
    /\ now' = now + 1
    /\ call'.op = "update" /\ call'.project = p
    /\ result'.status = "ok"

C3_StampStep ==
    \A p \in DOMAIN projects \cap DOMAIN projects' :
       /\ projects'[p].last_update >= projects[p].last_update
       /\ IF UpdateStep(p)
          THEN projects'[p].last_update = now'
          ELSE projects'[p].last_update = projects[p].last_update

C3_UpdateStampsLastUpdate ==
    /\ [](Done("update") =>
            (result.status = "ok") = WritableAtStart)
    /\ [][C3_StampStep]_vars

C3_Witness ==
    /\ Done("update") /\ result.status = "ok" /\ call.fields = {}
    /\ start.projects[call.project].last_update > 0
    /\ start.projects[call.project].last_update < now
    /\ projects[call.project].last_update = now

\* C4: an update or delete whose project id names no project writable by the
\* caller's company fails with InvalidProjectId and writes nothing, delete
\* with force included.
C4_InvalidProjectIdNoWrite ==
    (pc = "idle" /\ call.op \in {"update", "delete"} /\ ~WritableAtStart)
    => /\ result.status = "InvalidProjectId"
       /\ Store = start

C4_Witness ==
    /\ Done("delete") /\ call.force
    /\ call.project \in DOMAIN start.projects
    /\ start.projects[call.project].company \notin {call.company, NoCompany}
    /\ StartTasks # {}
    /\ result.status = "InvalidProjectId"
    /\ Store = start

\* C5: get_by_id returns the project exactly when the id names a project of
\* the caller's company or a public one, fails with InvalidProjectId and no
\* data otherwise, and changes no stored state.
C5_GetByIdTenantScoped ==
    Done("get_by_id")
    => /\ Store = start
       /\ IF VisibleAtStart
          THEN result = Ok([project |-> [id |-> call.project]
                                        @@ start.projects[call.project]])
          ELSE result = Error("InvalidProjectId")

C5_Witness ==
    /\ Done("get_by_id")
    /\ call.project \in DOMAIN start.projects
    /\ ~VisibleAtStart
    /\ result = Error("InvalidProjectId")

\* C6: a successful delete returns deleted = 1 and disassociated_tasks equal
\* to the number of tasks whose project reference the request cleared.
C6_DisassociatedTaskCount ==
    (Done("delete") /\ result.status = "ok")
    => /\ result.data.deleted = 1
       /\ result.data.disassociated_tasks =
             Cardinality({t \in DOMAIN tasks :
                            /\ start.tasks[t].project # None
                            /\ tasks[t].project = None})

\* C7: without isolation an unforced delete can complete while a non-archived
\* task or model references the deleted project, and only through a document
\* attached while the delete was in flight.
C7_DanglingOnlyByRace ==
    (Done("delete") /\ ~call.force /\ result.status = "ok")
    => /\ call.project \notin DOMAIN projects
       /\ \A t \in ActiveTasks : <<"Task", t>> \in raced
       /\ \A m \in ActiveModels : <<"Model", m>> \in raced

C7_Witness ==
    /\ Done("delete") /\ ~call.force /\ result.status = "ok"
    /\ call.project \notin DOMAIN projects
    /\ StartTasks = {} /\ StartModels = {}
    /\ ActiveTasks # {}

\* C8: in an unforced delete the task check comes first: with a non-archived
\* task the error is ProjectHasTasks whatever the models; ProjectHasModels
\* needs no non-archived task and some non-archived model.
C8_TaskCheckFirst ==
    (Done("delete") /\ ~call.force /\ WritableAtStart)
    => /\ StartTasks # {} => result.status = "ProjectHasTasks"
       /\ result.status = "ProjectHasModels"
             => (StartTasks = {} /\ StartModels # {})

C8_Witness ==
    /\ Done("delete") /\ ~call.force /\ WritableAtStart
    /\ StartTasks # {} /\ StartModels # {}
    /\ result.status = "ProjectHasTasks"

\* C9: archived tasks and models never block deletion: an unforced delete of
\* a writable project with no non-archived task or model succeeds and removes
\* the project document.
C9_ArchivedNeverBlocks ==
    (Done("delete") /\ ~call.force /\ WritableAtStart
        /\ StartTasks = {} /\ StartModels = {})
    => /\ result.status = "ok"
       /\ call.project \notin DOMAIN projects

C9_Witness ==
    /\ Done("delete") /\ ~call.force /\ WritableAtStart
    /\ \E t \in DOMAIN start.tasks :
          /\ start.tasks[t].project = call.project
          /\ archived \in start.tasks[t].system_tags
    /\ \E m \in DOMAIN start.models :
          /\ start.models[m].project = call.project
          /\ archived \in start.models[m].system_tags
    /\ result.status = "ok"
    /\ call.project \notin DOMAIN projects

\* C10: between requests every task's and model's project reference is empty
\* or names an existing project.
C10_ReferentialIntegrity ==
    pc = "idle"
    => /\ \A t \in DOMAIN tasks :
             tasks[t].project \in {None} \cup DOMAIN projects
       /\ \A m \in DOMAIN models :
             models[m].project \in {None} \cup DOMAIN projects

====
